---- MODULE Spec2Model ----
(***************************************************************************)
(* Model of the invoice application of src/src/components/InvoiceApp.tsx:  *)
(* the tax-identifier validators, the invoice totals calculator and the    *)
(* save workflow of the InvoiceApp component.                              *)
(*                                                                         *)
(* Text is a sequence of one-character strings, so that the regular        *)
(* expressions, split('') and trim() of the source can be computed.        *)
(* Amounts are fixed-point integers counted in Unit-ths of a lira; the     *)
(* input domains are chosen so that every product and percentage of the    *)
(* calculator is exact in that unit (the source computes in IEEE doubles). *)
(***************************************************************************)
EXTENDS Integers, Sequences, FiniteSets, TLC

VARIABLES
    pc,              \* position: "call" | "done" | "read" | "written" in a
                     \* harness, "app" in the application, "render" |
                     \* "effect" | "idle" in the recompute cycle
    arg,             \* the argument a pure function is applied to
    ret,             \* the value it returned
    company,         \* useState<Company>             (line 179)
    customers,       \* useState<Customer[]>          (line 195)
    invoices,        \* useState<Invoice[]>           (line 211)
    currentInvoice,  \* useState<Invoice>             (line 214)
    timers,          \* pending setTimeout callbacks  (line 484)
    toast,           \* the last notification shown   (useToast, line 175)
    steps            \* number of user interactions handled so far

fnVars  == <<pc, arg, ret>>
appVars == <<company, customers, invoices, currentInvoice, timers, toast, steps>>
vars    == <<pc, arg, ret, company, customers, invoices, currentInvoice,
             timers, toast, steps>>

(***************************************************************************)
(* Bounds of the model.                                                    *)
(***************************************************************************)
\* number of leading identifier positions that range over all ten digits;
\* the remaining positions come from the base identifiers below
FreeDigits == 1
\* longest line list the calculator harness draws
MaxCalcLines == 2
\* number of user interactions (clicks, edits) a behaviour of the
\* application is followed for
MaxSteps == 6

(***************************************************************************)
(* Characters and strings.                                                 *)
(***************************************************************************)
DigitStr   == <<"0", "1", "2", "3", "4", "5", "6", "7", "8", "9">>
DigitChars == {DigitStr[i] : i \in 1..10}
Whitespace == {" "}

\* Number(c) of a one-character string, as digits.map(Number) uses it on
\* characters the regular expression has already found to be digits
Number(c) == (CHOOSE i \in 1..10 : DigitStr[i] = c) - 1

\* the % of JavaScript: the remainder takes the sign of the dividend
JsRem(a, n) == IF a >= 0 THEN a % n ELSE 0 - ((0 - a) % n)

\* /^\d{n}$/.test(s)
MatchesDigits(s, n) == Len(s) = n /\ \A i \in 1..Len(s) : s[i] \in DigitChars

\* String.prototype.trim
RECURSIVE trimStart(_)
trimStart(s) ==
    IF s # <<>> /\ Head(s) \in Whitespace THEN trimStart(Tail(s)) ELSE s
RECURSIVE trimEnd(_)
trimEnd(s) ==
    IF s # <<>> /\ s[Len(s)] \in Whitespace
    THEN trimEnd(SubSeq(s, 1, Len(s) - 1)) ELSE s
trim(s) == trimEnd(trimStart(s))

(***************************************************************************)
(* validateTCKN, lines 41-54.  digits is 1-based here: digits[i+1] is the  *)
(* source's digits[i].                                                     *)
(***************************************************************************)
validateTCKN_NoCheck2(tckn) ==
    IF ~MatchesDigits(tckn, 11) THEN FALSE
    ELSE
      LET digits  == [i \in 1..Len(tckn) |-> Number(tckn[i])]
          oddSum  == digits[1] + digits[3] + digits[5] + digits[7] + digits[9]
          evenSum == digits[2] + digits[4] + digits[6] + digits[8]
          checkDigit1 == JsRem((oddSum * 7) - evenSum, 10)
      IN  IF digits[1] = 0 THEN FALSE
          ELSE digits[10] = checkDigit1

validateTCKN(tckn) ==
    IF ~MatchesDigits(tckn, 11) THEN FALSE
    ELSE
      LET digits  == [i \in 1..Len(tckn) |-> Number(tckn[i])]
          oddSum  == digits[1] + digits[3] + digits[5] + digits[7] + digits[9]
          evenSum == digits[2] + digits[4] + digits[6] + digits[8]
          checkDigit1 == JsRem((oddSum * 7) - evenSum, 10)
          checkDigit2 == JsRem(oddSum + evenSum + digits[10], 10)
      IN  IF digits[1] = 0 THEN FALSE
          ELSE digits[10] = checkDigit1 /\ digits[11] = checkDigit2

(***************************************************************************)
(* validateVKN, lines 57-72.                                               *)
(***************************************************************************)
weights == <<9, 8, 7, 6, 5, 4, 3, 2, 1>>

RECURSIVE vknSum(_, _)
\* the loop of lines 63-66, run for i = n-1 down to 0 (1-based: n down to 1)
vknSum(digits, n) ==
    IF n = 0 THEN 0 ELSE vknSum(digits, n - 1) + digits[n] * weights[n]

validateVKN_NoLowRemainder(vkn) ==
    IF ~MatchesDigits(vkn, 10) THEN FALSE
    ELSE
      LET digits     == [i \in 1..Len(vkn) |-> Number(vkn[i])]
          sum        == vknSum(digits, 9)
          remainder  == JsRem(sum, 11)
          checkDigit == 11 - remainder
      IN  digits[10] = checkDigit

validateVKN(vkn) ==
    IF ~MatchesDigits(vkn, 10) THEN FALSE
    ELSE
      LET digits     == [i \in 1..Len(vkn) |-> Number(vkn[i])]
          sum        == vknSum(digits, 9)
          remainder  == JsRem(sum, 11)
          checkDigit == IF remainder < 2 THEN remainder ELSE 11 - remainder
      IN  digits[10] = checkDigit

(***************************************************************************)
(* Amounts.  One lira is Unit units: a price in whole kurus (1/100) times  *)
(* an integer quantity, times a whole line-discount percentage, times a    *)
(* whole tax or document-discount percentage, is a whole number of units.  *)
(***************************************************************************)
Unit  == 100 * 100 * 100
Kurus == Unit \div 100

\* x * (p / 100), for an amount x that is a multiple of 100 units
PercentOf(x, p) == (x \div 100) * p

\* Math.round(y): the integer nearest to y, a tie going towards +Infinity.
\* Here y = x * 100 for an amount x, i.e. x counted in kurus.
MathRoundKurus(x) == (x + (Kurus \div 2)) \div Kurus

(***************************************************************************)
(* calculatedInvoice, lines 260-292.                                       *)
(***************************************************************************)
\* the body of the map callback, lines 263-278; net is satirNetTutar, which
\* line 270 adds to araToplam
updatedLineTaxOnGross(line) ==
    LET satirAraToplam    == line.adet * line.birimFiyat
        satirIskontoTutar == PercentOf(satirAraToplam, line.iskontoYuzde)
        satirNetTutar     == satirAraToplam - satirIskontoTutar
        satirKdvTutar     == PercentOf(satirAraToplam, line.kdvOran)
        satirToplam       == satirNetTutar + satirKdvTutar
    IN  [ line  |-> [line EXCEPT !.araToplam = satirAraToplam,
                                 !.kdvTutar  = satirKdvTutar,
                                 !.toplam    = satirToplam],
          net   |-> satirNetTutar ]

updatedLineDiscountedPrice(line) ==
    LET satirAraToplam    == line.adet * line.birimFiyat
        satirIskontoTutar == PercentOf(satirAraToplam, line.iskontoYuzde)
        satirNetTutar     == satirAraToplam - satirIskontoTutar
        satirKdvTutar     == PercentOf(satirNetTutar, line.kdvOran)
        satirToplam       == satirNetTutar + satirKdvTutar
    IN  [ line  |-> [line EXCEPT !.birimFiyat = satirNetTutar \div line.adet,
                                 !.araToplam = satirAraToplam,
                                 !.kdvTutar  = satirKdvTutar,
                                 !.toplam    = satirToplam],
          net   |-> satirNetTutar ]

updatedLine(line) ==
    LET satirAraToplam    == line.adet * line.birimFiyat
        satirIskontoTutar == PercentOf(satirAraToplam, line.iskontoYuzde)
        satirNetTutar     == satirAraToplam - satirIskontoTutar
        satirKdvTutar     == PercentOf(satirNetTutar, line.kdvOran)
        satirToplam       == satirNetTutar + satirKdvTutar
    IN  [ line  |-> [line EXCEPT !.araToplam = satirAraToplam,
                                 !.kdvTutar  = satirKdvTutar,
                                 !.toplam    = satirToplam],
          net   |-> satirNetTutar ]

RECURSIVE sumNet(_, _)
\* araToplam += satirNetTutar over the first n lines (lines 261, 270)
sumNet(satirlar, n) ==
    IF n = 0 THEN 0 ELSE sumNet(satirlar, n - 1) + updatedLine(satirlar[n]).net

RECURSIVE reduceKdv(_, _)
\* updatedLines.reduce((total, line) => total + line.kdvTutar, 0), line 282
reduceKdv(updatedLines, n) ==
    IF n = 0 THEN 0 ELSE reduceKdv(updatedLines, n - 1) + updatedLines[n].kdvTutar

\* lines 280-291: the document aggregates from the updated lines, the
\* accumulated araToplam and the document discount percentage
documentTotalsGrossSubtotal(updatedLines, araToplam, belgeBazliIskontoYuzde) ==
    LET belgeIskontoTutar == PercentOf(araToplam, belgeBazliIskontoYuzde)
        netAraToplam      == araToplam - belgeIskontoTutar
        kdvToplam         == reduceKdv(updatedLines, Len(updatedLines))
        genelToplam       == netAraToplam + kdvToplam
    IN  [ satirlar      |-> updatedLines,
          araToplam     |-> araToplam,
          iskontoToplam |-> belgeIskontoTutar,
          kdvToplam     |-> kdvToplam,
          genelToplam   |-> MathRoundKurus(genelToplam) * Kurus ]

documentTotalsTaxAfterDiscount(updatedLines, araToplam, belgeBazliIskontoYuzde) ==
    LET belgeIskontoTutar == PercentOf(araToplam, belgeBazliIskontoYuzde)
        netAraToplam      == araToplam - belgeIskontoTutar
        kdvToplam         == reduceKdv(updatedLines, Len(updatedLines))
                               - PercentOf(reduceKdv(updatedLines, Len(updatedLines)),
                                           belgeBazliIskontoYuzde)
        genelToplam       == netAraToplam + kdvToplam
    IN  [ satirlar      |-> updatedLines,
          araToplam     |-> netAraToplam,
          iskontoToplam |-> belgeIskontoTutar,
          kdvToplam     |-> kdvToplam,
          genelToplam   |-> MathRoundKurus(genelToplam) * Kurus ]

documentTotalsFlatDiscount(updatedLines, araToplam, belgeBazliIskontoYuzde) ==
    LET belgeIskontoTutar == belgeBazliIskontoYuzde * Unit
        netAraToplam      == araToplam - belgeIskontoTutar
        kdvToplam         == reduceKdv(updatedLines, Len(updatedLines))
        genelToplam       == netAraToplam + kdvToplam
    IN  [ satirlar      |-> updatedLines,
          araToplam     |-> netAraToplam,
          iskontoToplam |-> belgeIskontoTutar,
          kdvToplam     |-> kdvToplam,
          genelToplam   |-> MathRoundKurus(genelToplam) * Kurus ]

documentTotals(updatedLines, araToplam, belgeBazliIskontoYuzde) ==
    LET belgeIskontoTutar == PercentOf(araToplam, belgeBazliIskontoYuzde)
        netAraToplam      == araToplam - belgeIskontoTutar
        kdvToplam         == reduceKdv(updatedLines, Len(updatedLines))
        genelToplam       == netAraToplam + kdvToplam
    IN  [ satirlar      |-> updatedLines,
          araToplam     |-> netAraToplam,
          iskontoToplam |-> belgeIskontoTutar,
          kdvToplam     |-> kdvToplam,
          genelToplam   |-> MathRoundKurus(genelToplam) * Kurus ]

\* the useMemo callback: a function of currentInvoice.satirlar and
\* currentInvoice.belgeBazliIskontoYuzde
calculatedInvoiceReversed(satirlar, belgeBazliIskontoYuzde) ==
    LET updatedLines == [i \in 1..Len(satirlar) |->
                            updatedLine(satirlar[Len(satirlar) + 1 - i]).line]
        araToplam    == sumNet(satirlar, Len(satirlar))
    IN  documentTotals(updatedLines, araToplam, belgeBazliIskontoYuzde)

calculatedInvoice(satirlar, belgeBazliIskontoYuzde) ==
    LET updatedLines == [i \in 1..Len(satirlar) |-> updatedLine(satirlar[i]).line]
        araToplam    == sumNet(satirlar, Len(satirlar))
    IN  documentTotals(updatedLines, araToplam, belgeBazliIskontoYuzde)


(***************************************************************************)
(* The pure functions are exercised by a harness: Init draws an argument   *)
(* from a bounded set, one action applies the function.  The application   *)
(* state is idle meanwhile.                                                *)
(***************************************************************************)
AppIdle ==
    /\ company = <<>>
    /\ customers = <<>>
    /\ invoices = <<>>
    /\ currentInvoice = <<>>
    /\ timers = <<>>
    /\ toast = <<>>
    /\ steps = 0

\* the identifiers of nine leading digits the harness draws from: the first
\* FreeDigits positions take every digit, the rest come from a base
LeadingDigits(bases) ==
    { [i \in 1..9 |-> IF i <= FreeDigits THEN f[i] ELSE b[i]] :
        f \in [1..FreeDigits -> DigitChars], b \in bases }

\* leading digits of 10000000146, of the placeholder of line 833, and two
\* with extreme odd/even position sums
TCKNBases ==
    { <<"1", "0", "0", "0", "0", "0", "0", "0", "1">>,
      <<"1", "2", "3", "4", "5", "6", "7", "8", "9">>,
      <<"1", "9", "0", "9", "0", "9", "0", "9", "0">>,
      <<"9", "0", "9", "0", "9", "0", "9", "0", "9">> }

\* leading digits of the default company VKN of line 182, and three more
VKNBases ==
    { <<"1", "2", "3", "4", "5", "6", "7", "8", "9">>,
      <<"0", "0", "0", "0", "0", "0", "0", "0", "0">>,
      <<"1", "1", "1", "1", "1", "1", "1", "1", "1">>,
      <<"9", "8", "7", "6", "5", "4", "3", "2", "1">> }

\* a string and its malformed neighbours: one character short, one long,
\* a letter or a blank in place of a digit
Malformed(s) ==
    { SubSeq(s, 1, Len(s) - 1), s \o <<"0">>,
      [s EXCEPT ![Len(s)] = "x"], [s EXCEPT ![1] = " "] }

TCKNInputs(bases) ==
    LET full == { p \o <<c1, c2>> :
                    p \in LeadingDigits(bases),
                    c1 \in DigitChars, c2 \in DigitChars }
    IN  full \cup UNION { Malformed(s) : s \in full } \cup { <<>> }

VKNInputs(bases) ==
    LET full == { p \o <<c>> : p \in LeadingDigits(bases), c \in DigitChars }
    IN  full \cup UNION { Malformed(s) : s \in full } \cup { <<>> }

InitTCKN == pc = "call" /\ arg \in TCKNInputs(TCKNBases) /\ ret = FALSE /\ AppIdle

CallValidateTCKN ==
    /\ pc = "call"
    /\ ret' = validateTCKN(arg)
    /\ pc' = "done"
    /\ UNCHANGED arg
    /\ UNCHANGED appVars

SpecTCKN == InitTCKN /\ [][CallValidateTCKN]_vars

InitVKN == pc = "call" /\ arg \in VKNInputs(VKNBases) /\ ret = FALSE /\ AppIdle

CallValidateVKN ==
    /\ pc = "call"
    /\ ret' = validateVKN(arg)
    /\ pc' = "done"
    /\ UNCHANGED arg
    /\ UNCHANGED appVars

SpecVKN == InitVKN /\ [][CallValidateVKN]_vars

(***************************************************************************)
(* The identifier algorithms as section 4.1 of the specification states    *)
(* them, with the mathematical modulus (% of TLA+ is never negative).      *)
(***************************************************************************)
DigitsOf(s) == [i \in 1..Len(s) |-> Number(s[i])]

RECURSIVE SumTo(_, _)
SumTo(d, n) == IF n = 0 THEN 0 ELSE SumTo(d, n - 1) + d[n]

PersonalCheck1(d) == ((d[1] + d[3] + d[5] + d[7] + d[9]) * 7
                        - (d[2] + d[4] + d[6] + d[8])) % 10
PersonalCheck2(d) == SumTo(d, 10) % 10

PersonalIdValid(s) ==
    /\ Len(s) = 11
    /\ \A i \in 1..11 : s[i] \in DigitChars
    /\ s[1] # "0"
    /\ DigitsOf(s)[10] = PersonalCheck1(DigitsOf(s))
    /\ DigitsOf(s)[11] = PersonalCheck2(DigitsOf(s))

\* the identifier the checksum algorithm generates from nine leading digits
GeneratedPersonalId(p) ==
    LET c1 == DigitStr[PersonalCheck1(DigitsOf(p)) + 1]
        c2 == DigitStr[PersonalCheck2(DigitsOf(p \o <<c1>>)) + 1]
    IN  p \o <<c1, c2>>

BusinessCheckDigit(d) ==
    LET sum == d[1]*9 + d[2]*8 + d[3]*7 + d[4]*6 + d[5]*5
                 + d[6]*4 + d[7]*3 + d[8]*2 + d[9]*1
        remainder == sum % 11
    IN  IF remainder < 2 THEN remainder ELSE 11 - remainder

BusinessIdValid(s) ==
    /\ Len(s) = 10
    /\ \A i \in 1..10 : s[i] \in DigitChars
    /\ DigitsOf(s)[10] = BusinessCheckDigit(DigitsOf(s))

\* C1: validateTCKN(s) is true exactly when s is 11 digits, the first not 0,
\* the 10th the normalized ((odd*7 - even) mod 10) and the 11th the sum of
\* the first ten mod 10; every generated identifier is accepted.
C1_TCKNIffAlgorithm == pc = "done" => (ret = PersonalIdValid(arg))

\* C3: validateVKN(s) is true exactly when s is 10 digits and the 10th is
\* the check digit of the weighted sum of the first nine; every 9-digit
\* prefix has exactly one accepted 10th digit; 1234567890 is accepted.
C3_VKNIffAlgorithm ==
    pc = "done" =>
        /\ ret = BusinessIdValid(arg)
        /\ MatchesDigits(arg, 10) =>
              Cardinality({ c \in DigitChars :
                  validateVKN(SubSeq(arg, 1, 9) \o <<c>>) }) = 1
        /\ arg = <<"1", "2", "3", "4", "5", "6", "7", "8", "9", "0">> => ret

C3_Witness ==
    /\ pc = "done"
    /\ arg = <<"1", "2", "3", "4", "5", "6", "7", "8", "9", "0">>
    /\ ret = TRUE

(***************************************************************************)
(* Single-digit edits of a valid personal identifier: Init draws an        *)
(* identifier the checksum algorithm generates, the action replaces one of *)
(* its digits (the onChange of the identifier input, lines 825-835) and    *)
(* validates the result.                                                   *)
(***************************************************************************)
GeneratedTCKNs ==
    { GeneratedPersonalId(p) : p \in { q \in LeadingDigits(TCKNBases) : q[1] # "0" } }

InitTCKNEdit ==
    /\ pc = "call"
    /\ arg \in { [orig |-> s, s |-> s] : s \in GeneratedTCKNs }
    /\ ret = FALSE
    /\ AppIdle

ReplaceDigitAndValidate(i, c) ==
    /\ pc = "call"
    /\ c # arg.orig[i]
    /\ arg' = [arg EXCEPT !.s = [arg.orig EXCEPT ![i] = c]]
    /\ ret' = validateTCKN(arg'.s)
    /\ pc' = "done"
    /\ UNCHANGED appVars

NextTCKNEdit == \E i \in 1..11, c \in DigitChars : ReplaceDigitAndValidate(i, c)

SpecTCKNEdit == InitTCKNEdit /\ [][NextTCKNEdit]_vars

\* C2: replacing any single digit of a personal identifier that is valid
\* under the checksum algorithm by a different digit yields a string that
\* validateTCKN rejects.
C2_SingleDigitEditRejected ==
    (pc = "done" /\ PersonalIdValid(arg.orig)) => ret = FALSE

\* the last digit of a valid identifier has been replaced and the result
\* validated
C2_Witness ==
    /\ pc = "done"
    /\ PersonalIdValid(arg.orig)
    /\ arg.s[11] # arg.orig[11]
    /\ SubSeq(arg.s, 1, 10) = SubSeq(arg.orig, 1, 10)

(***************************************************************************)
(* The calculator harness.  Lines are drawn field by field from the sets   *)
(* below; the derived fields start at 0 as in addInvoiceLine (313-315),    *)
(* and each line of a list has an id of its own.                           *)
(***************************************************************************)
CalcAdet       == {1, 2}
CalcBirimFiyat == {25 * Kurus, 3333 * Kurus, 50 * Unit}   \* 0.25, 33.33, 50.00
CalcIskonto    == {0, 50, 150}
CalcKdvOran    == {0, 20}
CalcBelgeIskonto == {0, 10, 100}

CalcLines ==
    { [ id |-> <<>>, urunAdi |-> <<"H">>, aciklama |-> <<>>, adet |-> a,
        birim |-> <<"A", "d", "e", "t">>, birimFiyat |-> f, iskontoYuzde |-> d,
        kdvOran |-> k, araToplam |-> 0, kdvTutar |-> 0, toplam |-> 0 ] :
        a \in CalcAdet, f \in CalcBirimFiyat, d \in CalcIskonto, k \in CalcKdvOran }

CalcInputs(maxLines) ==
    { [ satirlar |-> [i \in 1..Len(l) |-> [l[i] EXCEPT !.id = <<DigitStr[i + 1]>>]],
        belgeBazliIskontoYuzde |-> p ] :
        l \in UNION { [1..n -> CalcLines] : n \in 0..maxLines },
        p \in CalcBelgeIskonto }

InitCalc ==
    /\ pc = "call"
    /\ arg \in CalcInputs(MaxCalcLines)
    /\ ret = calculatedInvoice(<<>>, 0)
    /\ AppIdle

CallCalculate ==
    /\ pc = "call"
    /\ ret' = calculatedInvoice(arg.satirlar, arg.belgeBazliIskontoYuzde)
    /\ pc' = "done"
    /\ UNCHANGED arg
    /\ UNCHANGED appVars

SpecCalc == InitCalc /\ [][CallCalculate]_vars

(***************************************************************************)
(* The calculator as section 4.2 of the specification states it.           *)
(***************************************************************************)
LineGross(l) == l.adet * l.birimFiyat
LineNet(l)   == LineGross(l) - PercentOf(LineGross(l), l.iskontoYuzde)
LineTax(l)   == PercentOf(LineNet(l), l.kdvOran)

RECURSIVE SumLineNet(_, _)
SumLineNet(lines, n) ==
    IF n = 0 THEN 0 ELSE SumLineNet(lines, n - 1) + LineNet(lines[n])

RECURSIVE SumLineTax(_, _)
SumLineTax(lines, n) ==
    IF n = 0 THEN 0 ELSE SumLineTax(lines, n - 1) + LineTax(lines[n])

RawSubtotal(lines) == SumLineNet(lines, Len(lines))
TaxTotal(lines)    == SumLineTax(lines, Len(lines))

\* round to whole kurus, a tie going away from zero
RoundHalfAwayFromZero(x) ==
    IF x >= 0 THEN ((x + (Kurus \div 2)) \div Kurus) * Kurus
    ELSE 0 - (((0 - x) + (Kurus \div 2)) \div Kurus) * Kurus

\* every percentage of the harness is taken of a multiple of 100 units, so
\* that PercentOf is exact
CalcExact ==
    pc = "call" =>
        /\ \A i \in 1..Len(arg.satirlar) :
              /\ LineGross(arg.satirlar[i]) % 100 = 0
              /\ LineNet(arg.satirlar[i]) % 100 = 0
        /\ RawSubtotal(arg.satirlar) % 100 = 0

\* C4: the output line at each position has tax amount lineNet * rate / 100
\* and line total lineNet + tax amount, lineNet being quantity * price less
\* the line discount, and no per-line figure is rounded.
C4_LineTaxAndTotal ==
    pc = "done" =>
        /\ Len(ret.satirlar) = Len(arg.satirlar)
        /\ \A i \in 1..Len(arg.satirlar) :
              /\ ret.satirlar[i].kdvTutar = LineTax(arg.satirlar[i])
              /\ ret.satirlar[i].toplam
                    = LineNet(arg.satirlar[i]) + LineTax(arg.satirlar[i])

\* a discounted, taxed line whose tax is not a whole number of kurus
C4_Witness ==
    /\ pc = "done"
    /\ \E i \in 1..Len(arg.satirlar) :
          /\ arg.satirlar[i].iskontoYuzde = 50
          /\ arg.satirlar[i].kdvOran = 20
          /\ ret.satirlar[i].kdvTutar % Kurus # 0
          /\ ret.satirlar[i].kdvTutar > 0

\* C5: discountTotal = rawSubtotal * p / 100 and subtotal = rawSubtotal -
\* discountTotal, rawSubtotal being the sum of the line net amounts; so
\* subtotal + discountTotal = rawSubtotal.
C5_DocumentDiscount ==
    pc = "done" =>
        /\ ret.iskontoToplam
              = PercentOf(RawSubtotal(arg.satirlar), arg.belgeBazliIskontoYuzde)
        /\ ret.araToplam = RawSubtotal(arg.satirlar) - ret.iskontoToplam
        /\ ret.araToplam + ret.iskontoToplam = RawSubtotal(arg.satirlar)

C5_Witness ==
    /\ pc = "done"
    /\ Len(arg.satirlar) = 2
    /\ arg.belgeBazliIskontoYuzde = 10
    /\ ret.iskontoToplam > 0
    /\ ret.araToplam > 0

\* C6: taxTotal is the sum of the per-line tax amounts, and taxTotal and the
\* per-line tax amounts are the same for every document discount
\* percentage.
C6_TaxIgnoresDocumentDiscount ==
    pc = "done" =>
        /\ ret.kdvToplam = TaxTotal(arg.satirlar)
        /\ \A p \in CalcBelgeIskonto :
              LET other == calculatedInvoice(arg.satirlar, p)
              IN  /\ other.kdvToplam = ret.kdvToplam
                  /\ \A i \in 1..Len(arg.satirlar) :
                        other.satirlar[i].kdvTutar = ret.satirlar[i].kdvTutar

C6_Witness ==
    /\ pc = "done"
    /\ arg.belgeBazliIskontoYuzde = 10
    /\ ret.kdvToplam > 0
    /\ ret.iskontoToplam > 0

\* C7: grandTotal is netSubtotal + taxTotal rounded to 2 decimals, a tie
\* going away from zero, also when the total is negative; no other output
\* field is rounded.
C7_GrandTotalRoundedHalfAway ==
    pc = "done" =>
        /\ ret.genelToplam = RoundHalfAwayFromZero(ret.araToplam + ret.kdvToplam)
        /\ ret.araToplam = RawSubtotal(arg.satirlar)
              - PercentOf(RawSubtotal(arg.satirlar), arg.belgeBazliIskontoYuzde)
        /\ ret.kdvToplam = TaxTotal(arg.satirlar)

\* C14: the calculator is a function of the non-derived line fields and the
\* document discount: a second invocation on the same input gives the same
\* output, and so does an invocation on the output lines, whose derived
\* fields are populated.
C14_CalculatorIdempotent ==
    pc = "done" =>
        /\ calculatedInvoice(arg.satirlar, arg.belgeBazliIskontoYuzde) = ret
        /\ calculatedInvoice(ret.satirlar, arg.belgeBazliIskontoYuzde) = ret
        /\ LET dirty == [i \in 1..Len(arg.satirlar) |->
                            [arg.satirlar[i] EXCEPT !.araToplam = 25 * Kurus,
                                                    !.kdvTutar = 3333 * Kurus,
                                                    !.toplam = 50 * Unit]]
           IN  calculatedInvoice(dirty, arg.belgeBazliIskontoYuzde) = ret

\* two discounted, taxed lines were calculated
C14_Witness ==
    /\ pc = "done"
    /\ Len(ret.satirlar) = 2
    /\ \A i \in 1..2 : /\ arg.satirlar[i].iskontoYuzde = 50
                       /\ ret.satirlar[i].kdvTutar > 0
                       /\ ret.satirlar[i].araToplam > ret.satirlar[i].toplam
    /\ ret.iskontoToplam > 0

\* the fields of a line the calculator does not derive
NonDerived(line) ==
    [ id |-> line.id, urunAdi |-> line.urunAdi, aciklama |-> line.aciklama,
      adet |-> line.adet, birim |-> line.birim, birimFiyat |-> line.birimFiyat,
      iskontoYuzde |-> line.iskontoYuzde, kdvOran |-> line.kdvOran ]

\* C15: the output line list is as long as the input, and the line at each
\* position has the id and the non-derived fields of the input line at that
\* position.
C15_LinesKeepPositionAndInputs ==
    pc = "done" =>
        /\ Len(ret.satirlar) = Len(arg.satirlar)
        /\ \A i \in 1..Len(arg.satirlar) :
              /\ ret.satirlar[i].id = arg.satirlar[i].id
              /\ NonDerived(ret.satirlar[i]) = NonDerived(arg.satirlar[i])
              /\ DOMAIN ret.satirlar[i] = DOMAIN arg.satirlar[i]

\* two lines that differ in every drawn field were calculated
C15_Witness ==
    /\ pc = "done"
    /\ Len(ret.satirlar) = 2
    /\ ret.satirlar[1].id # ret.satirlar[2].id
    /\ arg.satirlar[1].adet # arg.satirlar[2].adet
    /\ arg.satirlar[1].birimFiyat # arg.satirlar[2].birimFiyat
    /\ arg.satirlar[1].iskontoYuzde # arg.satirlar[2].iskontoYuzde
    /\ arg.satirlar[1].kdvOran # arg.satirlar[2].kdvOran
    /\ ret.satirlar[1].toplam # arg.satirlar[1].toplam

\* C16: for an empty line list and any document discount the calculator
\* returns an empty line list and 0 for each of the four aggregates.
C16_EmptyListAllZero ==
    (pc = "done" /\ arg.satirlar = <<>>) =>
        ret = [ satirlar |-> <<>>, araToplam |-> 0, iskontoToplam |-> 0,
                kdvToplam |-> 0, genelToplam |-> 0 ]

\* the empty list was calculated with a document discount of 100
C16_Witness ==
    /\ pc = "done"
    /\ arg.satirlar = <<>>
    /\ arg.belgeBazliIskontoYuzde = 100
    /\ ret.satirlar = <<>>

(***************************************************************************)
(* The InvoiceApp component, lines 174-496 and the handlers of its JSX.    *)
(***************************************************************************)
RECURSIVE natToString(_)
natToString(n) ==
    IF n < 10 THEN <<DigitStr[n + 1]>>
    ELSE natToString(n \div 10) \o <<DigitStr[(n % 10) + 1]>>

\* Number.prototype.toString of an integer
toString(n) == IF n < 0 THEN <<"-">> \o natToString(0 - n) ELSE natToString(n)

RECURSIVE padStart(_, _, _)
\* String.prototype.padStart with a one-character filler
padStart(str, targetLength, c) ==
    IF Len(str) >= targetLength THEN str
    ELSE padStart(<<c>> \o str, targetLength, c)

\* new Date().getFullYear()
year == 2026

\* Date.now(), read for a new id: a millisecond count no id in use was made
\* from.  Ids are only compared for equality, so the model takes the least
\* such count.
DateNow(used) == CHOOSE n \in 1..(Cardinality(used) + 1) :
                    /\ toString(n) \notin used
                    /\ \A m \in 1..(n - 1) : toString(m) \in used

ValidVKN  == <<"1", "2", "3", "4", "5", "6", "7", "8", "9", "0">>
ValidTCKN == <<"1", "0", "0", "0", "0", "0", "0", "0", "1", "4", "6">>

\* the fallback of safeLocalStorage.getItem('tr-invoice-company'), 180-191
\* (the fields no handler of the model reads are left out)
defaultCompany ==
    [ firmaAdi |-> <<"O">>, vkn |-> ValidVKN, seri |-> <<"A">>, sira |-> 1,
      varsayilanKdv |-> 20 ]

emptyAlici ==
    [ id |-> <<>>, tip |-> "kurumsal", unvanVeyaAdSoyad |-> <<>>,
      vknVeyaTckn |-> <<>>, vergiDairesi |-> <<>>, adres |-> <<>>,
      email |-> <<>>, telefon |-> <<>> ]

\* the object of lines 214-237 and of resetInvoiceForm, 352-375 (tarih and
\* not, which no handler of the model reads, are left out)
emptyInvoice(satici) ==
    [ id |-> <<>>, faturaNo |-> <<>>, satici |-> satici, alici |-> emptyAlici,
      satirlar |-> <<>>, belgeBazliIskontoYuzde |-> 0, araToplam |-> 0,
      iskontoToplam |-> 0, kdvToplam |-> 0, genelToplam |-> 0,
      durum |-> "taslak" ]

noToast == [ title |-> "", description |-> <<>>, variant |-> "" ]

\* a customer catalog as an earlier session stored it under
\* 'tr-invoice-customers' (line 196)
storedCustomers ==
    << [ emptyAlici EXCEPT !.id = <<"1">>, !.unvanVeyaAdSoyad = <<"A">>,
            !.vknVeyaTckn = ValidVKN, !.vergiDairesi = <<"V">>,
            !.adres = <<"X">> ],
       [ emptyAlici EXCEPT !.id = <<"2">>, !.tip = "bireysel",
            !.unvanVeyaAdSoyad = <<"B">>, !.vknVeyaTckn = ValidTCKN,
            !.adres = <<"X">> ] >>

\* Array.prototype.join, on messages kept whole
RECURSIVE join(_, _)
join(errors, sep) ==
    IF Len(errors) <= 1 THEN errors
    ELSE <<Head(errors), sep>> \o join(Tail(errors), sep)

\* /^[^\s@]+@[^\s@]+\.[^\s@]+$/.test(s), line 406
emailPatternUnanchored(s) ==
    LET plain(a, b) == \A k \in a..b : s[k] \notin Whitespace \cup {"@"}
    IN  \E i \in 2..Len(s), j \in 4..Len(s) :
           /\ s[i] = "@"
           /\ s[j] = "."
           /\ i + 1 < j
           /\ j < Len(s)
           /\ plain(i - 1, i - 1)
           /\ plain(i + 1, j - 1)
           /\ plain(j + 1, j + 1)

emailPattern(s) ==
    LET plain(a, b) == \A k \in a..b : s[k] \notin Whitespace \cup {"@"}
    IN  \E i \in 2..Len(s), j \in 4..Len(s) :
           /\ s[i] = "@"
           /\ s[j] = "."
           /\ i + 1 < j
           /\ j < Len(s)
           /\ plain(1, i - 1)
           /\ plain(i + 1, j - 1)
           /\ plain(j + 1, Len(s))

when(cond, message) == IF cond THEN <<message>> ELSE <<>>

\* validateCustomer, lines 380-411
validateCustomer(customer) ==
    LET errors ==
          when(trim(customer.unvanVeyaAdSoyad) = <<>>, <<0, "Unvan/Ad Soyad gereklidir">>)
          \o ( IF trim(customer.vknVeyaTckn) = <<>>
               THEN << <<0, "VKN/TCKN gereklidir">> >>
               ELSE IF customer.tip = "bireysel"
               THEN when(~validateTCKN(customer.vknVeyaTckn), <<0, "Gecersiz TCKN">>)
               ELSE IF customer.tip = "kurumsal"
               THEN when(~validateVKN(customer.vknVeyaTckn), <<0, "Gecersiz VKN">>)
                    \o when(trim(customer.vergiDairesi) = <<>>,
                            <<0, "Vergi dairesi gereklidir">>)
               ELSE <<>> )
          \o when(trim(customer.adres) = <<>>, <<0, "Adres gereklidir">>)
          \o when(customer.email # <<>> /\ ~emailPattern(customer.email),
                  <<0, "Gecersiz e-mail adresi">>)
    IN  [ isValid |-> errors = <<>>, errors |-> errors ]

\* the forEach callback of lines 421-434.  A message is <<n, text>>: the
\* text after the prefix "n. satir: ", or the whole text when n = 0
lineErrors(line, index) ==
    when(trim(line.urunAdi) = <<>>, <<index + 1, "Urun adi gereklidir">>)
    \o when(line.adet <= 0, <<index + 1, "Adet 0'dan buyuk olmalidir">>)
    \o when(line.birimFiyat < 0, <<index + 1, "Birim fiyat negatif olamaz">>)
    \o when(line.kdvOran < 0 \/ line.kdvOran > 100,
            <<index + 1, "KDV orani 0-100 arasinda olmalidir">>)

RECURSIVE allLineErrors(_, _)
allLineErrors(lines, n) ==
    IF n = 0 THEN <<>>
    ELSE allLineErrors(lines, n - 1) \o lineErrors(lines[n], n - 1)

\* validateInvoiceLines, lines 413-437
validateInvoiceLinesNoEmptyCheck(lines) ==
    LET errors == allLineErrors(lines, Len(lines))
    IN  [ isValid |-> errors = <<>>, errors |-> errors ]

validateInvoiceLines(lines) ==
    IF Len(lines) = 0
    THEN [ isValid |-> FALSE, errors |-> << <<0, "En az bir urun/hizmet satiri ekleyin">> >> ]
    ELSE LET errors == allLineErrors(lines, Len(lines))
         IN  [ isValid |-> errors = <<>>, errors |-> errors ]

\* generateInvoiceNumber, lines 344-348
generateInvoiceNumber ==
    LET paddedSira == padStart(toString(company.sira), 6, "0")
    IN  company.seri \o toString(year) \o <<"-">> \o paddedSira

\* prev.findIndex(inv => inv.id === id), 1-based, 0 when there is none
findIndex(prev, id) ==
    IF \E i \in 1..Len(prev) : prev[i].id = id
    THEN CHOOSE i \in 1..Len(prev) :
            prev[i].id = id /\ \A k \in 1..(i - 1) : prev[k].id # id
    ELSE 0

\* the array without the element of the given id, lines 339 and 1369
filterOutId(prev, id) == SelectSeq(prev, LAMBDA x : x.id # id)

(***************************************************************************)
(* The state after construction and the handlers.  A user interaction is   *)
(* handled while steps < MaxSteps; the timer callback and the effect are   *)
(* not user interactions.                                                  *)
(***************************************************************************)
Init ==
    /\ pc = "app"
    /\ arg = <<>>
    /\ ret = <<>>
    /\ company = defaultCompany
    /\ customers = storedCustomers
    /\ invoices = <<>>
    /\ currentInvoice = emptyInvoice(defaultCompany)
    /\ timers = <<>>
    /\ toast = noToast
    /\ steps = 0

userEvent ==
    /\ pc = "app"
    /\ steps < MaxSteps
    /\ steps' = steps + 1
    /\ UNCHANGED fnVars

\* the values the buyer inputs of lines 785-896 are given
aliciEdits ==
    [ tip |-> {"bireysel", "kurumsal"},
      unvanVeyaAdSoyad |-> {<<>>},
      vknVeyaTckn |-> {<<>>, ValidVKN},
      vergiDairesi |-> {<<>>},
      adres |-> {<<" ">>},
      email |-> {<<>>, <<"a", "@", "b">>} ]

\* onValueChange / onChange of the buyer inputs, lines 787-893; the tax
\* office input is rendered for a corporate buyer only (line 837)
setAlici(field, value) ==
    /\ userEvent
    /\ value # currentInvoice.alici[field]
    /\ field = "vergiDairesi" => currentInvoice.alici.tip = "kurumsal"
    /\ currentInvoice' = [currentInvoice EXCEPT !.alici[field] = value]
    /\ UNCHANGED <<company, customers, invoices, timers, toast>>

lineIds(satirlar) == { satirlar[i].id : i \in 1..Len(satirlar) }

\* addInvoiceLine, lines 303-322
addInvoiceLine ==
    /\ userEvent
    /\ LET newLine ==
             [ id |-> toString(DateNow(lineIds(currentInvoice.satirlar))),
               urunAdi |-> <<>>, aciklama |-> <<>>, adet |-> 1,
               birim |-> <<"A", "d", "e", "t">>, birimFiyat |-> 0,
               iskontoYuzde |-> 0, kdvOran |-> company.varsayilanKdv,
               araToplam |-> 0, kdvTutar |-> 0, toplam |-> 0 ]
       IN  currentInvoice' =
             [currentInvoice EXCEPT !.satirlar = Append(@, newLine)]
    /\ UNCHANGED <<company, customers, invoices, timers, toast>>

\* the values the line inputs of lines 1055-1116 pass to updateInvoiceLine,
\* after parseFloat(..) || 0 and parseInt
lineEdits ==
    [ urunAdi |-> {<<>>, <<"H">>},
      adet |-> {0},
      birimFiyat |-> {0 - 25 * Kurus, 25 * Kurus},
      kdvOran |-> {0} ]

\* updateInvoiceLine, lines 325-332
updateInvoiceLine(lineId, field, value) ==
    /\ userEvent
    /\ \E i \in 1..Len(currentInvoice.satirlar) :
          /\ currentInvoice.satirlar[i].id = lineId
          /\ currentInvoice.satirlar[i][field] # value
    /\ currentInvoice' =
          [currentInvoice EXCEPT !.satirlar =
              [i \in 1..Len(@) |->
                  IF @[i].id = lineId THEN [@[i] EXCEPT ![field] = value]
                  ELSE @[i]]]
    /\ UNCHANGED <<company, customers, invoices, timers, toast>>

\* removeLine, lines 336-341
removeLine(lineId) ==
    /\ userEvent
    /\ lineId \in lineIds(currentInvoice.satirlar)
    /\ currentInvoice' =
          [currentInvoice EXCEPT !.satirlar = filterOutId(@, lineId)]
    /\ UNCHANGED <<company, customers, invoices, timers, toast>>

max(a, b) == IF a >= b THEN a ELSE b
min(a, b) == IF a <= b THEN a ELSE b

\* onChange of the document discount input, lines 1155-1161, rendered when
\* there is a line (1148); newValue is parseFloat(e.target.value) || 0
setBelgeBazliIskontoUnclamped(newValue) ==
    /\ userEvent
    /\ Len(currentInvoice.satirlar) > 0
    /\ newValue # currentInvoice.belgeBazliIskontoYuzde
    /\ currentInvoice' =
          [currentInvoice EXCEPT !.belgeBazliIskontoYuzde = newValue]
    /\ UNCHANGED <<company, customers, invoices, timers, toast>>

setBelgeBazliIskonto(newValue) ==
    /\ userEvent
    /\ Len(currentInvoice.satirlar) > 0
    /\ max(0, min(100, newValue)) # currentInvoice.belgeBazliIskontoYuzde
    /\ currentInvoice' =
          [currentInvoice EXCEPT
              !.belgeBazliIskontoYuzde = max(0, min(100, newValue))]
    /\ UNCHANGED <<company, customers, invoices, timers, toast>>

\* the effect of lines 295-300: merges calculatedInvoice into the form.
\* Merging again the values the form already holds changes no value; the
\* identities it changes are followed by Render and Effect below.
mergeCalculated(prev, calc) ==
    [prev EXCEPT !.satirlar = calc.satirlar, !.araToplam = calc.araToplam,
                 !.iskontoToplam = calc.iskontoToplam,
                 !.kdvToplam = calc.kdvToplam,
                 !.genelToplam = calc.genelToplam]

mergeEffect ==
    /\ pc = "app"
    /\ LET calc == calculatedInvoice(currentInvoice.satirlar,
                                     currentInvoice.belgeBazliIskontoYuzde)
       IN  /\ mergeCalculated(currentInvoice, calc) # currentInvoice
           /\ currentInvoice' = mergeCalculated(currentInvoice, calc)
    /\ UNCHANGED <<company, customers, invoices, timers, toast, steps>>
    /\ UNCHANGED fnVars

\* the functional update of lines 471-479
putInvoiceAlwaysAppending(prev, invoiceToSave) == Append(prev, invoiceToSave)

putInvoice(prev, invoiceToSave) ==
    LET existingIndex == findIndex(prev, invoiceToSave.id)
    IN  IF existingIndex >= 1
        THEN [prev EXCEPT ![existingIndex] = invoiceToSave]
        ELSE Append(prev, invoiceToSave)

invoiceIds == { invoices[i].id : i \in 1..Len(invoices) } \cup {currentInvoice.id}

\* lines 463-469
invoiceToSaveOf(status) ==
    [currentInvoice EXCEPT
        !.id = IF currentInvoice.id # <<>> THEN currentInvoice.id
               ELSE toString(DateNow(invoiceIds)),
        !.faturaNo = IF currentInvoice.faturaNo # <<>> THEN currentInvoice.faturaNo
                     ELSE generateInvoiceNumber,
        !.durum = status,
        !.satici = company]

\* lines 444-449 and 455-460: the error toast, then return
rejectSaveAfterCounting(title, errors) ==
    /\ toast' = [ title |-> title, description |-> join(errors, <<0, ", ">>),
                  variant |-> "destructive" ]
    /\ company' = [company EXCEPT !.sira = @ + 1]
    /\ UNCHANGED <<invoices, timers>>

rejectSave(title, errors) ==
    /\ toast' = [ title |-> title, description |-> join(errors, <<0, ", ">>),
                  variant |-> "destructive" ]
    /\ UNCHANGED <<company, invoices, timers>>

\* saveInvoice, lines 440-496; no branch of it sets the form or the customer
\* catalog.  The callback given to setTimeout closes over
\* the company of the render saveInvoice was made in (resetInvoiceForm reads
\* it at line 356); a finalization returns at line 489, before the toast of
\* line 492.
saveInvoice(status) ==
    /\ userEvent
    /\ UNCHANGED <<customers, currentInvoice>>
    /\ LET customerValidation == validateCustomer(currentInvoice.alici)
           linesValidation    == validateInvoiceLines(currentInvoice.satirlar)
       IN  IF ~customerValidation.isValid
           THEN rejectSave("Musteri Bilgilerinde Hata", customerValidation.errors)
           ELSE IF ~linesValidation.isValid
           THEN rejectSave("Urun/Hizmet Satirlarinda Hata", linesValidation.errors)
           ELSE /\ invoices' = putInvoice(invoices, invoiceToSaveOf(status))
                /\ IF status = "tamamlandi"
                   THEN /\ company' = [company EXCEPT !.sira = @ + 1]
                        /\ timers' = Append(timers, company)
                        /\ UNCHANGED toast
                   ELSE /\ toast' = [ title |-> "Basarili",
                                      description |-> << <<0, "Fatura taslak olarak kaydedildi.">> >>,
                                      variant |-> "" ]
                        /\ UNCHANGED <<company, timers>>

\* the callback of lines 484-486: resetInvoiceForm, lines 351-377
resetTimerFiresKeepingBuyer ==
    /\ pc = "app"
    /\ timers # <<>>
    /\ currentInvoice' =
          [emptyInvoice(Head(timers)) EXCEPT !.alici = currentInvoice.alici]
    /\ timers' = Tail(timers)
    /\ UNCHANGED <<company, customers, invoices, toast, steps>>
    /\ UNCHANGED fnVars

resetTimerFires ==
    /\ pc = "app"
    /\ timers # <<>>
    /\ currentInvoice' = emptyInvoice(Head(timers))
    /\ timers' = Tail(timers)
    /\ UNCHANGED <<company, customers, invoices, toast, steps>>
    /\ UNCHANGED fnVars

\* the Duzenle button of the saved invoices, lines 1353-1360
editInvoice(i) ==
    /\ userEvent
    /\ i \in 1..Len(invoices)
    /\ currentInvoice' = invoices[i]
    /\ toast' = [ title |-> "Taslak Yuklendi",
                  description |-> << <<0, "Taslak duzenleme icin yuklendi.">> >>,
                  variant |-> "" ]
    /\ UNCHANGED <<company, customers, invoices, timers>>

\* the delete button of the saved invoices, lines 1368-1374
deleteInvoice(i) ==
    /\ userEvent
    /\ i \in 1..Len(invoices)
    /\ invoices' = filterOutId(invoices, invoices[i].id)
    /\ toast' = [ title |-> "Taslak Silindi",
                  description |-> << <<0, "Taslak basariyla silindi.">> >>,
                  variant |-> "" ]
    /\ UNCHANGED <<company, customers, currentInvoice, timers>>

\* the Sec button of a customer card, lines 1659-1669
selectCustomer(i) ==
    /\ userEvent
    /\ i \in 1..Len(customers)
    /\ currentInvoice' = [currentInvoice EXCEPT !.alici = customers[i]]
    /\ toast' = [ title |-> "Musteri Secildi",
                  description |-> << <<0, "Musteri fatura formuna aktarildi.">> >>,
                  variant |-> "" ]
    /\ UNCHANGED <<company, customers, invoices, timers>>

Next ==
    \/ \E field \in DOMAIN aliciEdits :
          \E value \in aliciEdits[field] : setAlici(field, value)
    \/ addInvoiceLine
    \/ \E lineId \in lineIds(currentInvoice.satirlar), field \in DOMAIN lineEdits :
          \E value \in lineEdits[field] : updateInvoiceLine(lineId, field, value)
    \/ \E lineId \in lineIds(currentInvoice.satirlar) : removeLine(lineId)
    \/ \E newValue \in {0 - 5, 10, 150} : setBelgeBazliIskonto(newValue)
    \/ mergeEffect
    \/ \E status \in {"taslak", "tamamlandi"} : saveInvoice(status)
    \/ resetTimerFires
    \/ \E i \in 1..Len(invoices) : editInvoice(i)
    \/ \E i \in 1..Len(invoices) : deleteInvoice(i)
    \/ \E i \in 1..Len(customers) : selectCustomer(i)

Spec == Init /\ [][Next]_vars

(***************************************************************************)
(* The save workflow as the specification states it.                       *)
(***************************************************************************)
Statuses == {"taslak", "tamamlandi"}

NonBlank(str) == \E k \in 1..Len(str) : str[k] \notin Whitespace

\* the buyer conditions of section 4.2
BuyerOK(alici) ==
    /\ NonBlank(alici.unvanVeyaAdSoyad)
    /\ NonBlank(alici.adres)
    /\ alici.tip = "bireysel" => validateTCKN(alici.vknVeyaTckn)
    /\ alici.tip = "kurumsal" =>
          validateVKN(alici.vknVeyaTckn) /\ NonBlank(alici.vergiDairesi)

\* the line conditions of section 4.2
LineOK(line) ==
    /\ NonBlank(line.urunAdi)
    /\ line.adet > 0
    /\ line.birimFiyat >= 0
    /\ line.kdvOran >= 0
    /\ line.kdvOran <= 100

SaveFailsValidation ==
    \/ ~validateCustomer(currentInvoice.alici).isValid
    \/ ~validateInvoiceLines(currentInvoice.satirlar).isValid

\* C8: a save attempt that fails buyer or line validation leaves the invoice
\* catalog, the company record with its sequence counter and the form
\* unchanged, and reports a non-empty list of error messages.
C8_RejectedSaveChangesNothing ==
    [][ \A status \in Statuses :
          (saveInvoice(status) /\ SaveFailsValidation) =>
              /\ invoices' = invoices
              /\ company' = company
              /\ currentInvoice' = currentInvoice
              /\ toast'.variant = "destructive"
              /\ toast'.description # <<>> ]_vars

\* a save was rejected for its lines while the catalog holds an invoice
C8_Witness ==
    /\ toast.variant = "destructive"
    /\ toast.title = "Urun/Hizmet Satirlarinda Hata"
    /\ toast.description # <<>>
    /\ Len(invoices) >= 1

\* C9: every finalized catalog entry has at least one line, every line has
\* a non-blank name, quantity > 0, unit price >= 0 and tax rate in 0..100,
\* and its buyer has a non-blank name and address, an identifier that
\* passes the validator of its kind, and a tax office when corporate.
C9_FinalizedEntriesValid ==
    \A i \in 1..Len(invoices) :
        invoices[i].durum = "tamamlandi" =>
            /\ Len(invoices[i].satirlar) >= 1
            /\ \A k \in 1..Len(invoices[i].satirlar) : LineOK(invoices[i].satirlar[k])
            /\ BuyerOK(invoices[i].alici)

\* finalized entries of both buyer kinds are in the catalog
C9_Witness ==
    /\ \E i \in 1..Len(invoices) :
          invoices[i].durum = "tamamlandi" /\ invoices[i].alici.tip = "bireysel"
    /\ \E i \in 1..Len(invoices) :
          invoices[i].durum = "tamamlandi" /\ invoices[i].alici.tip = "kurumsal"

FinalizedIds(catalog) ==
    { catalog[i].id : i \in { k \in 1..Len(catalog) : catalog[k].durum = "tamamlandi" } }

\* C10: a save changes the sequence counter only when it makes an invoice
\* finalized, and then by exactly 1: a draft save and a save of an invoice
\* that is already finalized leave the counter as it is.
C10_CounterOncePerFinalizedInvoice ==
    [][ \A status \in Statuses :
          saveInvoice(status) =>
              company'.sira =
                 IF FinalizedIds(invoices') \subseteq FinalizedIds(invoices)
                 THEN company.sira
                 ELSE company.sira + 1 ]_vars

\* C13: every catalog entry carries the aggregates and the per-line derived
\* fields the calculator yields for the entry's own lines and document
\* discount, whatever the order of edits, merges and saves was.
C13_StoredDerivedFieldsFresh ==
    \A i \in 1..Len(invoices) :
        LET calc == calculatedInvoice(invoices[i].satirlar,
                                      invoices[i].belgeBazliIskontoYuzde)
        IN  /\ invoices[i].satirlar = calc.satirlar
            /\ invoices[i].araToplam = calc.araToplam
            /\ invoices[i].iskontoToplam = calc.iskontoToplam
            /\ invoices[i].kdvToplam = calc.kdvToplam
            /\ invoices[i].genelToplam = calc.genelToplam

\* C17: a catalog entry that is finalized is the same entry, field by
\* field, after every step that leaves it in the catalog.
C17_FinalizedEntriesImmutable ==
    [][ \A i \in 1..Len(invoices) :
          invoices[i].durum = "tamamlandi" =>
              \A k \in 1..Len(invoices') :
                  invoices'[k].id = invoices[i].id => invoices'[k] = invoices[i] ]_vars

\* C18: the document discount of the form, which the calculator is invoked
\* with, lies in 0..100 in every reachable state.
C18_DocumentDiscountInRange ==
    pc = "app" =>
        /\ currentInvoice.belgeBazliIskontoYuzde >= 0
        /\ currentInvoice.belgeBazliIskontoYuzde <= 100

\* 150 was typed into the document discount input, and the calculator has
\* run on the clamped value
C18_Witness ==
    /\ pc = "app"
    /\ currentInvoice.belgeBazliIskontoYuzde = 100
    /\ currentInvoice.araToplam = 0
    /\ currentInvoice.iskontoToplam > 0

(***************************************************************************)
(* The email check of validateCustomer, line 406: Init draws an email, the *)
(* action validates an otherwise valid customer that has it.               *)
(***************************************************************************)
\* longest email drawn
MaxEmailLen == 6

EmailChars == {"a", "@", ".", " "}

EmailInputs(maxLen) == UNION { [1..n -> EmailChars] : n \in 0..maxLen }

InitEmail == pc = "call" /\ arg \in EmailInputs(MaxEmailLen) /\ ret = <<>> /\ AppIdle

CallValidateCustomer ==
    /\ pc = "call"
    /\ ret' = validateCustomer([storedCustomers[1] EXCEPT !.email = arg]).errors
    /\ pc' = "done"
    /\ UNCHANGED arg
    /\ UNCHANGED appVars

SpecEmail == InitEmail /\ [][CallValidateCustomer]_vars

\* the shape of section 4.1: no whitespace, exactly one '@', which is not
\* the first character, and after it a '.' that has a character between it
\* and the '@' and a character after it
EmailShape(s) ==
    /\ \A k \in 1..Len(s) : s[k] \notin Whitespace
    /\ Cardinality({ k \in 1..Len(s) : s[k] = "@" }) = 1
    /\ LET at == CHOOSE k \in 1..Len(s) : s[k] = "@"
       IN  /\ at > 1
           /\ \E d \in (at + 2)..(Len(s) - 1) : s[d] = "."

\* C19: validateCustomer reports an email error exactly for a non-empty
\* email that does not have the shape local@domain.tld made of characters
\* that are neither whitespace nor '@'; an empty email gives no error.
C19_EmailAcceptedIffShape ==
    pc = "done" =>
        /\ (ret # <<>>) <=> (arg # <<>> /\ ~EmailShape(arg))
        /\ ret \in { <<>>, << <<0, "Gecersiz e-mail adresi">> >> }

\* a shaped email was accepted
C19_Witness ==
    /\ pc = "done"
    /\ arg = <<"a", "@", "a", ".", ".", "a">>
    /\ ret = <<>>

(***************************************************************************)
(* The settings tab (company inputs, lines 1706-1827) and the customers    *)
(* tab (lines 1524-1679), with the handlers of the form that store and     *)
(* load invoices.                                                          *)
(***************************************************************************)
\* number of user interactions a behaviour with the settings and customers
\* tabs is followed for
MaxAdminSteps == 6

\* the longest prefix of s made of digits
RECURSIVE leadingDigits(_)
leadingDigits(s) ==
    IF s # <<>> /\ Head(s) \in DigitChars
    THEN <<Head(s)>> \o leadingDigits(Tail(s)) ELSE <<>>

RECURSIVE decimalValue(_)
decimalValue(ds) ==
    IF ds = <<>> THEN 0
    ELSE decimalValue(SubSeq(ds, 1, Len(ds) - 1)) * 10 + Number(ds[Len(ds)])

\* parseInt(text): leading blanks are skipped, then an optional '-' and the
\* leading digits are read; NaN when there is no digit
parseInt(text) ==
    LET t      == trimStart(text)
        neg    == t # <<>> /\ Head(t) = "-"
        digits == leadingDigits(IF neg THEN Tail(t) ELSE t)
    IN  [ nan   |-> digits = <<>>,
          value |-> IF neg THEN 0 - decimalValue(digits) ELSE decimalValue(digits) ]

\* parseInt(text) || 1, line 1791: NaN and 0 are falsy
parseIntOr1(text) ==
    IF parseInt(text).nan \/ parseInt(text).value = 0 THEN 1
    ELSE parseInt(text).value

\* String.prototype.toUpperCase on the letters the model types
toUpperCase(text) ==
    [i \in 1..Len(text) |->
        IF text[i] = "a" THEN "A" ELSE IF text[i] = "b" THEN "B" ELSE text[i]]

\* the values the company inputs pass to setCompany: the name (1710), the
\* series (1781), the counter (1791) and the default tax rate (1799)
companyEdits ==
    [ firmaAdi |-> {<<"N">>},
      seri |-> {toUpperCase(<<"b">>)},
      sira |-> {parseIntOr1(<<>>), parseIntOr1(<<"0">>), parseIntOr1(<<"-", "5">>)},
      varsayilanKdv |-> {10} ]

\* setCompany(prev => ({ ...prev, [field]: value })), lines 1710-1799
setCompany(field, value) ==
    /\ userEvent
    /\ value # company[field]
    /\ company' = [company EXCEPT ![field] = value]
    /\ UNCHANGED <<customers, invoices, currentInvoice, timers, toast>>

\* the "Ayarlari Kaydet" button, lines 1817-1827
saveSettings ==
    /\ userEvent
    /\ currentInvoice' = [currentInvoice EXCEPT !.satici = company]
    /\ toast' = [ title |-> "Ayarlar Kaydedildi",
                  description |-> << <<0, "Firma ayarlari basariyla guncellendi.">> >>,
                  variant |-> "" ]
    /\ UNCHANGED <<company, customers, invoices, timers>>

customerIds == { customers[i].id : i \in 1..Len(customers) }

\* the "Yeni Musteri" button, lines 1524-1536
addCustomer ==
    /\ userEvent
    /\ customers' =
          Append(customers, [emptyAlici EXCEPT !.id = toString(DateNow(customerIds))])
    /\ UNCHANGED <<company, invoices, currentInvoice, timers, toast>>

\* the values typed into the inputs of a customer card
customerEdits ==
    [ unvanVeyaAdSoyad |-> {<<"C">>},
      adres |-> {<<>>} ]

\* onChange of the inputs of a customer card, lines 1559-1647
updateCustomerPropagating(id, field, value) ==
    /\ userEvent
    /\ \E i \in 1..Len(customers) :
          customers[i].id = id /\ customers[i][field] # value
    /\ customers' =
          [i \in 1..Len(customers) |->
              IF customers[i].id = id THEN [customers[i] EXCEPT ![field] = value]
              ELSE customers[i]]
    /\ invoices' =
          [i \in 1..Len(invoices) |->
              IF invoices[i].alici.id = id
              THEN [invoices[i] EXCEPT !.alici[field] = value]
              ELSE invoices[i]]
    /\ UNCHANGED <<company, currentInvoice, timers, toast>>

updateCustomer(id, field, value) ==
    /\ userEvent
    /\ \E i \in 1..Len(customers) :
          customers[i].id = id /\ customers[i][field] # value
    /\ customers' =
          [i \in 1..Len(customers) |->
              IF customers[i].id = id THEN [customers[i] EXCEPT ![field] = value]
              ELSE customers[i]]
    /\ UNCHANGED <<company, invoices, currentInvoice, timers, toast>>

\* the delete button of a customer card, lines 1677-1679
deleteCustomer(id) ==
    /\ userEvent
    /\ id \in customerIds
    /\ customers' = filterOutId(customers, id)
    /\ UNCHANGED <<company, invoices, currentInvoice, timers, toast>>

adminBudget == steps < MaxAdminSteps

\* the values typed into the line inputs while the other tabs are in use
adminLineEdits ==
    [ urunAdi |-> {<<"H">>},
      birimFiyat |-> {25 * Kurus},
      iskontoYuzde |-> {150} ]

NextAdmin ==
    \/ \E field \in DOMAIN companyEdits :
          \E value \in companyEdits[field] : adminBudget /\ setCompany(field, value)
    \/ adminBudget /\ saveSettings
    \/ adminBudget /\ addCustomer
    \/ \E id \in customerIds, field \in DOMAIN customerEdits :
          \E value \in customerEdits[field] :
              adminBudget /\ updateCustomer(id, field, value)
    \/ \E id \in customerIds : adminBudget /\ deleteCustomer(id)
    \/ \E i \in 1..Len(customers) : adminBudget /\ selectCustomer(i)
    \/ adminBudget /\ addInvoiceLine
    \/ \E lineId \in lineIds(currentInvoice.satirlar), field \in DOMAIN adminLineEdits :
          \E value \in adminLineEdits[field] :
              adminBudget /\ updateInvoiceLine(lineId, field, value)
    \/ \E status \in {"taslak", "tamamlandi"} : adminBudget /\ saveInvoice(status)
    \/ \E i \in 1..Len(invoices) : adminBudget /\ editInvoice(i)
    \/ mergeEffect
    \/ resetTimerFires

SpecAdmin == Init /\ [][NextAdmin]_vars

\* the n digits ds written for the number v
WrittenAs(ds, n, v) ==
    /\ Len(ds) = n
    /\ \A k \in 1..Len(ds) : ds[k] \in DigitChars
    /\ decimalValue(ds) = v

\* <series><4-digit year>-<6-digit zero-padded sequence>
NumberFormat(no, seri, sira) ==
    /\ Len(no) = Len(seri) + 11
    /\ SubSeq(no, 1, Len(seri)) = seri
    /\ WrittenAs(SubSeq(no, Len(seri) + 1, Len(seri) + 4), 4, year)
    /\ no[Len(seri) + 5] = "-"
    /\ WrittenAs(SubSeq(no, Len(seri) + 6, Len(seri) + 11), 6, sira)

\* the position the entry saved from the form takes in the catalog
SavedAt ==
    IF findIndex(invoices, currentInvoice.id) >= 1
    THEN findIndex(invoices, currentInvoice.id) ELSE Len(invoices) + 1

\* C11: a successful save of a form without a number stores the series,
\* the 4-digit year, '-' and the counter at save time as exactly 6
\* zero-padded digits; a form that has a number keeps it.
C11_InvoiceNumberFormat ==
    [][ \A status \in Statuses :
          (saveInvoice(status) /\ ~SaveFailsValidation) =>
              /\ Len(invoices') >= SavedAt
              /\ IF currentInvoice.faturaNo # <<>>
                 THEN invoices'[SavedAt].faturaNo = currentInvoice.faturaNo
                 ELSE NumberFormat(invoices'[SavedAt].faturaNo,
                                   company.seri, company.sira) ]_vars

\* C12: a step that is not a save of the same invoice leaves the seller
\* and buyer records of every catalog entry as they are, whatever it does
\* to the customer catalog and the company settings.
C12_StoredPartiesFrozen ==
    [][ \A i \in 1..Len(invoices) :
          \/ /\ \E status \in Statuses : saveInvoice(status)
             /\ i = SavedAt
          \/ /\ i <= Len(invoices')
             /\ invoices'[i].id = invoices[i].id
             /\ invoices'[i].satici = invoices[i].satici
             /\ invoices'[i].alici = invoices[i].alici ]_vars

\* the catalog holds an invoice whose seller has another name than the
\* company has now and whose buyer is no longer, or no longer the same, in
\* the customer catalog
C12_Witness ==
    \E i \in 1..Len(invoices) :
        /\ invoices[i].satici.firmaAdi # company.firmaAdi
        /\ invoices[i].alici.id # <<>>
        /\ \A k \in 1..Len(customers) :
              customers[k].id = invoices[i].alici.id =>
                  customers[k] # invoices[i].alici

(***************************************************************************)
(* The recompute-and-merge cycle, lines 260-300, with the identities React *)
(* compares.  useMemo recomputes when currentInvoice.satirlar is another   *)
(* array than the one it last computed for, or the document discount is    *)
(* another number (dependencies of line 292); the effect runs when         *)
(* calculatedInvoice is another object than the one it last ran for (line  *)
(* 300).  arg holds the identities: an array or object is a number, and a  *)
(* new one is a number none of the four identities in use has.  The object *)
(* useMemo returns and the array updatedLines inside it are made together  *)
(* (lines 263, 285) and share one number.                                  *)
(*   pc = "render": a state update is waiting to be rendered               *)
(*   pc = "effect": the render is committed, its effects are to be run     *)
(*   pc = "idle":   nothing is pending                                     *)
(***************************************************************************)
NewRef(refs) ==
    CHOOSE n \in 1..5 :
        /\ n \notin {refs.satirlar, refs.deps, refs.memo, refs.effectDep}
        /\ \A m \in 1..(n - 1) :
              m \in {refs.satirlar, refs.deps, refs.memo, refs.effectDep}

\* the forms an edit is made on: at most one line, any drawn discount
RecomputeInputs == CalcInputs(1)

\* The state an edit handler leaves: the form has the edited inputs and the
\* derived fields of before; a line edit (lines 318, 326, 337) has made a
\* new satirlar array, a discount edit (line 1157) has kept the array and
\* changed the number.  The memo and the effect last ran for the array and
\* the discount of before.
InitRecompute ==
    /\ pc = "render"
    /\ \E x \in RecomputeInputs, lineEdit \in BOOLEAN :
          /\ currentInvoice =
                [emptyInvoice(defaultCompany) EXCEPT
                    !.satirlar = x.satirlar,
                    !.belgeBazliIskontoYuzde = x.belgeBazliIskontoYuzde]
          /\ arg = [ satirlar  |-> IF lineEdit THEN 2 ELSE 1,
                     deps      |-> 1,
                     depsBelge |-> IF lineEdit THEN x.belgeBazliIskontoYuzde
                                   ELSE IF x.belgeBazliIskontoYuzde = 0 THEN 10
                                   ELSE 0,
                     memo      |-> 1,
                     effectDep |-> 1 ]
    /\ ret = calculatedInvoice(<<>>, 0)
    /\ company = defaultCompany
    /\ customers = <<>>
    /\ invoices = <<>>
    /\ timers = <<>>
    /\ toast = noToast
    /\ steps = 1

\* the component function runs: useMemo, lines 260-292
Render ==
    /\ pc = "render"
    /\ IF \/ arg.satirlar # arg.deps
          \/ currentInvoice.belgeBazliIskontoYuzde # arg.depsBelge
       THEN /\ ret' = calculatedInvoice(currentInvoice.satirlar,
                                        currentInvoice.belgeBazliIskontoYuzde)
            /\ arg' = [arg EXCEPT !.memo = NewRef(arg),
                                  !.deps = arg.satirlar,
                                  !.depsBelge = currentInvoice.belgeBazliIskontoYuzde]
       ELSE UNCHANGED <<arg, ret>>
    /\ pc' = "effect"
    /\ UNCHANGED appVars

\* the effects of the committed render: lines 295-300.  The updater returns
\* a new object whose satirlar is the array of calculatedInvoice, so the
\* component renders again.
Effect ==
    /\ pc = "effect"
    /\ IF arg.memo # arg.effectDep
       THEN /\ currentInvoice' = mergeCalculated(currentInvoice, ret)
            /\ arg' = [arg EXCEPT !.satirlar = arg.memo, !.effectDep = arg.memo]
            /\ pc' = "render"
       ELSE /\ pc' = "idle"
            /\ UNCHANGED <<arg, currentInvoice>>
    /\ UNCHANGED <<ret, company, customers, invoices, timers, toast, steps>>

NextRecompute == Render \/ Effect

\* React runs a pending render and the effects of a committed render
SpecRecompute ==
    InitRecompute /\ [][NextRecompute]_vars /\ WF_vars(Render) /\ WF_vars(Effect)

\* C20: after a user edit the recompute-and-merge cycle reaches a state in
\* which no recompute and no merge is pending.
C20_RecomputeQuiesces == <>(pc = "idle")

(***************************************************************************)
(* The derived fields of the output lines against the document subtotal.  *)
(***************************************************************************)
RECURSIVE sumLineAraToplam(_, _)
\* the sum of the araToplam fields of the first n lines
sumLineAraToplam(lines, n) ==
    IF n = 0 THEN 0 ELSE sumLineAraToplam(lines, n - 1) + lines[n].araToplam

\* C28: the araToplam fields of the output lines add up to the subtotal
\* before the document discount, that is to the returned araToplam plus the
\* returned iskontoToplam, and each line's toplam is its araToplam plus its
\* kdvTutar.
C28_LineSubtotalsAddUp ==
    pc = "done" =>
        /\ sumLineAraToplam(ret.satirlar, Len(ret.satirlar))
              = ret.araToplam + ret.iskontoToplam
        /\ \A i \in 1..Len(ret.satirlar) :
              ret.satirlar[i].toplam
                 = ret.satirlar[i].araToplam + ret.satirlar[i].kdvTutar

(***************************************************************************)
(* Ranges of the stored line discount and of the sequence counter.        *)
(***************************************************************************)
\* C21: every line of every catalog entry has a line discount percentage
\* within 0..100.
C21_StoredLineDiscountInRange ==
    \A i \in 1..Len(invoices) :
        \A k \in 1..Len(invoices[i].satirlar) :
            /\ invoices[i].satirlar[k].iskontoYuzde >= 0
            /\ invoices[i].satirlar[k].iskontoYuzde <= 100

\* C22: the sequence counter of the company is at least 1 after every
\* sequence of settings edits and saves.
C22_CounterAtLeastOne == pc = "app" => company.sira >= 1

(***************************************************************************)
(* The catalog under repeated saves, the notification of a save and the    *)
(* reset a finalization schedules.                                         *)
(***************************************************************************)
\* C24: no two entries of the catalog carry the same invoice number (the
\* steps followed edit neither the counter nor the series).
C24_InvoiceNumbersUnique ==
    \A i \in 1..Len(invoices), k \in 1..Len(invoices) :
        i # k => invoices[i].faturaNo # invoices[k].faturaNo

\* what the user has entered in an invoice: the buyer, the non-derived
\* fields of the lines and the document discount
Entered(inv) ==
    [ alici |-> inv.alici,
      satirlar |-> [k \in 1..Len(inv.satirlar) |-> NonDerived(inv.satirlar[k])],
      belgeBazliIskontoYuzde |-> inv.belgeBazliIskontoYuzde ]

\* the catalog holds the form as a save with the given status wrote it and
\* the form has not been edited since
FormSavedAs(status) ==
    \E i \in 1..Len(invoices) :
        /\ invoices[i].durum = status
        /\ Entered(invoices[i]) = Entered(currentInvoice)
        /\ currentInvoice.id \in {<<>>, invoices[i].id}

\* C25: saving the form again with the same status, with no edit since the
\* save that wrote it to the catalog, leaves the number of catalog entries
\* as it is.
C25_SecondSaveAddsNoEntry ==
    [][ \A status \in Statuses :
          (saveInvoice(status) /\ ~SaveFailsValidation /\ FormSavedAs(status)) =>
              Len(invoices') = Len(invoices) ]_vars

\* C26: the reset a finalization scheduled leaves the form as it is when
\* the form no longer holds what was finalized.
C26_ResetClearsOnlyFinalized ==
    [][ (resetTimerFires /\ ~FormSavedAs("tamamlandi")) =>
            currentInvoice' = currentInvoice ]_vars

\* C27: a successful save of an invoice whose id is in the catalog replaces
\* the entry of that id in place and leaves the length and every other
\* entry as they are; a successful save of any other invoice appends one
\* entry and leaves the existing entries as they are, in order.
C27_SaveReplacesOrAppends ==
    [][ \A status \in Statuses :
          (saveInvoice(status) /\ ~SaveFailsValidation) =>
              LET j == findIndex(invoices, currentInvoice.id)
              IN  IF j >= 1
                  THEN /\ Len(invoices') = Len(invoices)
                       /\ invoices'[j] = invoiceToSaveOf(status)
                       /\ invoices'[j].id = invoices[j].id
                       /\ \A k \in 1..Len(invoices) :
                             k # j => invoices'[k] = invoices[k]
                  ELSE /\ Len(invoices') = Len(invoices) + 1
                       /\ SubSeq(invoices', 1, Len(invoices)) = invoices
                       /\ invoices'[Len(invoices')] = invoiceToSaveOf(status) ]_vars

\* a draft was loaded into the form and finalized in place: the form still
\* holds the draft, the entry of its id is finalized
C27_Witness ==
    /\ Len(invoices) = 1
    /\ currentInvoice.id = invoices[1].id
    /\ currentInvoice.durum = "taslak"
    /\ invoices[1].durum = "tamamlandi"

\* C29: a save shows one notification: a success notification when it
\* succeeds, with either status, and an error notification when it is
\* rejected, about the buyer when the buyer is invalid and about the lines
\* otherwise.
C29_SaveNotifiesOnce ==
    [][ \A status \in Statuses :
          saveInvoice(status) =>
              IF ~validateCustomer(currentInvoice.alici).isValid
              THEN /\ toast'.variant = "destructive"
                   /\ toast'.title = "Musteri Bilgilerinde Hata"
              ELSE IF ~validateInvoiceLines(currentInvoice.satirlar).isValid
              THEN /\ toast'.variant = "destructive"
                   /\ toast'.title = "Urun/Hizmet Satirlarinda Hata"
              ELSE /\ toast'.variant # "destructive"
                   /\ toast'.title = "Basarili" ]_vars

(***************************************************************************)
(* The form after a finalization: the handlers that lead to a finalization *)
(* and the timer callback, which the browser runs once its 1500 ms have    *)
(* passed.                                                                 *)
(***************************************************************************)
\* number of user interactions a behaviour with a pending reset is
\* followed for
MaxResetSteps == 5

resetBudget == steps < MaxResetSteps

NextReset ==
    \/ \E i \in 1..Len(customers) : resetBudget /\ selectCustomer(i)
    \/ resetBudget /\ addInvoiceLine
    \/ \E lineId \in lineIds(currentInvoice.satirlar), field \in DOMAIN adminLineEdits :
          \E value \in adminLineEdits[field] :
              resetBudget /\ updateInvoiceLine(lineId, field, value)
    \/ \E status \in {"taslak", "tamamlandi"} : resetBudget /\ saveInvoice(status)
    \/ \E i \in 1..Len(invoices) : resetBudget /\ editInvoice(i)
    \/ mergeEffect
    \/ resetTimerFires

\* nothing cancels the timer of line 484, so its callback runs
SpecReset == Init /\ [][NextReset]_vars /\ WF_vars(resetTimerFires)

\* the empty draft of resetInvoiceForm, whatever its seller
EmptyDraft(inv) ==
    /\ inv.id = <<>>
    /\ inv.faturaNo = <<>>
    /\ inv.alici = emptyAlici
    /\ inv.alici.tip = "kurumsal"
    /\ inv.satirlar = <<>>
    /\ inv.belgeBazliIskontoYuzde = 0
    /\ inv.araToplam = 0
    /\ inv.iskontoToplam = 0
    /\ inv.kdvToplam = 0
    /\ inv.genelToplam = 0
    /\ inv.durum = "taslak"

MaxItemLen == 4

ItemChars == {"[", "]", "5", "}"}

null == [ typeof |-> "object", is |-> <<"null", <<>>>> ]

\* the item of a key that is not in the storage
noItem == <<"none", <<>>>>

\* the text of JSON.stringify(value), kept as the value it denotes
JSONstringify(value) == <<"json", value>>

RECURSIVE JSONtext(_)
\* the JSON texts over the characters drawn: null, a number, [], and an
\* array of one JSON text
JSONtext(t) ==
    \/ t = <<"n", "u", "l", "l">>
    \/ t # <<>> /\ \A k \in 1..Len(t) : t[k] = "5"
    \/ /\ Len(t) >= 2
       /\ t[1] = "["
       /\ t[Len(t)] = "]"
       /\ Len(t) = 2 \/ JSONtext(SubSeq(t, 2, Len(t) - 1))

\* JSON.parse(data): a SyntaxError for a text that is not JSON
JSONparse(data) ==
    IF data[1] = "json" THEN [ threw |-> FALSE, value |-> data[2] ]
    ELSE IF ~JSONtext(data[2]) THEN [ threw |-> TRUE ]
    ELSE IF data[2] = <<"n", "u", "l", "l">> THEN [ threw |-> FALSE, value |-> null ]
    ELSE IF data[2][1] = "5"
    THEN [ threw |-> FALSE, value |-> [ typeof |-> "number", is |-> data ] ]
    ELSE [ threw |-> FALSE, value |-> [ typeof |-> "object", is |-> data ] ]

\* safeJSONParse, lines 75-87; !data holds for null and for ''
safeJSONParse(data, fallback) ==
    IF data = noItem \/ data = <<"text", <<>>>>
    THEN [ threw |-> FALSE, value |-> fallback ]
    ELSE LET parsed == JSONparse(data)
         IN  IF parsed.threw THEN [ threw |-> FALSE, value |-> fallback ]
             ELSE IF parsed.value.typeof # fallback.typeof
             THEN [ threw |-> FALSE, value |-> fallback ]
             ELSE [ threw |-> FALSE, value |-> parsed.value ]

\* localStorage.getItem(key), for the item the key has
localStorageGetItem(item, refused) ==
    IF refused THEN [ threw |-> TRUE ] ELSE [ threw |-> FALSE, value |-> item ]

\* safeLocalStorage.getItem, lines 91-99
getItem(item, fallback, refused) ==
    LET got == localStorageGetItem(item, refused)
    IN  IF got.threw THEN [ threw |-> FALSE, value |-> fallback ]
        ELSE LET parsed == safeJSONParse(got.value, fallback)
             IN  IF parsed.threw THEN [ threw |-> FALSE, value |-> fallback ]
                 ELSE parsed

\* localStorage.setItem(key, text): the item after the call
localStorageSetItem(item, text, refused) ==
    IF refused THEN [ threw |-> TRUE, item |-> item ]
    ELSE [ threw |-> FALSE, item |-> text ]

\* safeLocalStorage.setItem, lines 101-109
setItemUncaught(item, value, refused) ==
    LET set == localStorageSetItem(item, JSONstringify(value), refused)
    IN  IF set.threw THEN [ threw |-> TRUE, item |-> set.item ]
        ELSE [ threw |-> FALSE, value |-> TRUE, item |-> set.item ]

setItem(item, value, refused) ==
    LET set == localStorageSetItem(item, JSONstringify(value), refused)
    IN  IF set.threw THEN [ threw |-> FALSE, value |-> FALSE, item |-> set.item ]
        ELSE [ threw |-> FALSE, value |-> TRUE, item |-> set.item ]

StorageKeys == {"tr-invoice-company", "tr-invoice-customers", "tr-invoice-invoices"}

\* the state a key persists, as a JavaScript value
stateOf(key) ==
    [ typeof |-> "object",
      is |-> IF key = "tr-invoice-company" THEN <<key, company>>
             ELSE IF key = "tr-invoice-customers" THEN <<key, customers>>
             ELSE <<key, invoices>> ]

\* the fallbacks of lines 180-191, 196 and 212
fallbackOf(key) ==
    [ typeof |-> "object",
      is |-> IF key = "tr-invoice-company" THEN <<key, defaultCompany>>
             ELSE <<key, <<>>>> ]

StorageItems(maxLen) ==
    { <<"text", t>> : t \in UNION { [1..n -> ItemChars] : n \in 0..maxLen } }
    \cup { noItem, <<"text", <<"n", "u", "l", "l">>>> }
    \cup { JSONstringify(fallbackOf(key)) : key \in StorageKeys }

InitStorage ==
    /\ pc = "call"
    /\ arg \in [ key : StorageKeys, item : StorageItems(MaxItemLen), refused : BOOLEAN ]
    /\ ret = <<>>
    /\ company = defaultCompany
    /\ customers = storedCustomers
    /\ invoices = <<>>
    /\ currentInvoice = emptyInvoice(defaultCompany)
    /\ timers = <<>>
    /\ toast = noToast
    /\ steps = 0

\* an initializer of lines 179-213 reads its key
CallGetItem ==
    /\ pc = "call"
    /\ ret' = getItem(arg.item, fallbackOf(arg.key), arg.refused)
    /\ pc' = "read"
    /\ UNCHANGED arg
    /\ UNCHANGED appVars

\* a persistence effect of lines 243-257 writes its key; it does not look
\* at what setItem returns
PersistEffect ==
    /\ pc = "call"
    /\ ret' = setItem(arg.item, stateOf(arg.key), arg.refused)
    /\ pc' = "written"
    /\ UNCHANGED arg
    /\ UNCHANGED appVars

NextStorage == CallGetItem \/ PersistEffect

SpecStorage == InitStorage /\ [][NextStorage]_vars

\* C23: setItem does not throw, returns false when the write fails and
\* true otherwise, and leaves the company, the customers and the invoices
\* in memory as they are; getItem does not throw and returns the fallback
\* when the read fails or the item is not JSON.
C23_StorageFailuresContained ==
    /\ pc = "written" =>
          /\ ~ret.threw
          /\ ret.value = ~arg.refused
          /\ arg.refused => ret.item = arg.item
          /\ company = defaultCompany
          /\ customers = storedCustomers
          /\ invoices = <<>>
    /\ pc = "read" =>
          /\ ~ret.threw
          /\ arg.refused => ret.value = fallbackOf(arg.key)
          /\ (arg.item[1] = "text" /\ ~JSONtext(arg.item[2])) =>
                ret.value = fallbackOf(arg.key)

\* a write the browser refused while the key held an item
C23_Witness ==
    /\ pc = "written"
    /\ arg.refused
    /\ arg.item = <<"text", <<"[", "5", "]">>>>
    /\ ret.value = FALSE
====
